---- MODULE Spec2Model ----
(***************************************************************************)
(* Model of cli/cmd/logs.go: the `logs` command of the linkerd2 CLI.       *)
(*                                                                         *)
(*   newCmdLogs.RunE -> newLogOptions -> validateArgs -> runLogOutput      *)
(*                                                                         *)
(* runLogOutput starts one goroutine ("tailer") per (pod, container) pair, *)
(* each reading a log stream line by line, colouring the line's identifier *)
(* with ColorPicker.pick and sending it on the unbuffered channel          *)
(* lineRead; the main goroutine receives from lineRead and writes every    *)
(* line to the writer (os.Stdout).                                         *)
(***************************************************************************)
EXTENDS Integers, Sequences, FiniteSets, TLC

\* ------------------------------------------------------------------ bounds
MaxPods       == 2   \* pods in the list returned by the API server
MaxContainers == 2   \* containers per pod
MaxListed     == 3   \* containers over all pods of a list, when resolving
MaxTailers    == 2   \* containers over all pods of a list, when tailing
MaxLines      == 3   \* complete lines the streams deliver, all together
MaxArgs       == 2   \* positional arguments on the command line
NumPickIDs    == 6   \* identifiers presented to the colour picker alone

\* ------------------------------------------------------------ value sets
\* Names the API server may give pods and containers, in a fixed order so
\* that a larger bound brings a further name.
AllPodNames == <<"api", "worker", "web", "db", "cache", "auth", "queue", "cron">>
AllContainerNames == <<"stdout", "proxy", "init", "sidecar">>

PodNames == {AllPodNames[i] : i \in 1..MaxPods}
ContainerNames == {AllContainerNames[i] : i \in 1..MaxContainers}

\* What the user may type: nothing, a name that may be in the list, a name
\* that never is.
ArgValues == {"", "api", "missing"}
ContainerFilters == {"", "stdout", "missing"}

\* The nil error.
NilErr == "<nil>"

\* Sequences over S of length lo..hi.
SeqsOf(S, lo, hi) == UNION {[1..n -> S] : n \in lo..hi}

\* Sequences without a repeated element (names are unique in Kubernetes:
\* pod names within a namespace, container names within a pod).
Distinct(s) == \A i, j \in 1..Len(s) : i # j => s[i] # s[j]

\* v1.Pod, reduced to what logs.go reads: pod.Name and pod.Spec.Containers
\* (each container reduced to container.Name).
Pod(name, containers) == [Name |-> name, Containers |-> containers]

\* The zero value v1.Pod{} of logFilter{}.
ZeroPod == Pod("", <<>>)

RECURSIVE SumLen(_)
SumLen(items) ==
    IF items = <<>> THEN 0
    ELSE Len(items[1].Containers) + SumLen(Tail(items))

\* A pod has at least one container (the API server rejects a pod without).
Pods == {Pod(n, cs) : n \in PodNames,
                      cs \in {s \in SeqsOf(ContainerNames, 1, MaxContainers) : Distinct(s)}}

PodItems == {s \in SeqsOf(Pods, 0, MaxPods) :
                /\ \A i, j \in 1..Len(s) : i # j => s[i].Name # s[j].Name
                /\ SumLen(s) <= MaxListed}

\* *v1.PodList: nil, or a list with Items.
NilPodList == [isNil |-> TRUE, Items |-> <<>>]
PodList(items) == [isNil |-> FALSE, Items |-> items]

\* The lists in which pod i has the i-th pod name and the first n container
\* names: names are only ever compared for equality, so these stand for all
\* lists when goroutines are run.
CanonPod(i, n) == Pod(AllPodNames[i], SubSeq(AllContainerNames, 1, n))

CanonPodItems ==
    {s \in UNION {{[i \in 1..l |-> CanonPod(i, f[i])] : f \in [1..l -> 1..MaxContainers]} :
                    l \in 0..MaxPods} : SumLen(s) <= MaxTailers}

\* What clientset...Pods(ns).List(...) may return, given the lists it may
\* return without an error: a list and no error, or an error together with a
\* nil or an empty list.
ListResults(lists) ==
    {[pods |-> PodList(items), err |-> NilErr] : items \in lists}
    \cup {[pods |-> NilPodList, err |-> "list failed"],
          [pods |-> PodList(<<>>), err |-> "list failed"]}

\* --------------------------------------------------------- ColorPicker
availableColors == <<"Yellow", "Red", "Cyan", "Green", "Magenta">>

\* map[string]chalk.Color{}: a function with an empty domain.
EmptyMap == [id \in {} |-> ""]

\* c.m[id] = color
MapPut(mp, k, v) == [x \in DOMAIN mp \cup {k} |-> IF x = k THEN v ELSE mp[x]]

\* newColorPicker(): an empty map, the palette, lastUsedColor zero.
newColorPicker == [m |-> EmptyMap, lastUsedColor |-> 0]

\* Variant of pickCursor: the test is against len(c.availableColors).
pickCursorLate(c) ==
    IF c.lastUsedColor > Len(availableColors) THEN 0 ELSE c.lastUsedColor

\* The cursor after the wrap-around test of pick.
pickCursor(c) ==
    IF c.lastUsedColor > Len(availableColors) - 1 THEN 0 ELSE c.lastUsedColor

\* ColorPicker.pick(id), the whole critical section under c.mu: the picker
\* after the call and the colour returned.  Slice index i is element i+1.
pick(c, id) ==
    IF id \in DOMAIN c.m
    THEN [picker |-> c, color |-> c.m[id]]
    ELSE LET cur == pickCursor(c)
             col == availableColors[cur + 1]
         IN  [picker |-> [m |-> MapPut(c.m, id, col), lastUsedColor |-> cur + 1],
              color  |-> col]

\* The history of assignments after a pick of id on picker c returned color.
Assigned(hist, c, id, color) ==
    IF id \in DOMAIN c.m THEN hist ELSE Append(hist, [id |-> id, color |-> color])

\* fmt.Sprintf("[%s %s]", p, c)
loglineID(p, c) == "[" \o p \o " " \o c \o "]"

\* What ReadBytes('\n') returns with an error: the bytes of line n read so
\* far, without a '\n'.  (n >= 1 stands for line n with its '\n', 0 for no
\* bytes.)
Unterminated(n) == 0 - n

\* fmt.Sprintf("%s %s", color.Color(loglineID), string(bytes)), kept as its
\* three parts; bytes is the number of the line within its stream.
FormatLine(color, id, bytes) == [color |-> color, id |-> id, bytes |-> bytes]

\* ------------------------------------------------------- validateArgs
logFilter(pod, containerName) ==
    [targetPod |-> pod, targetContainerName |-> containerName]

ErrNoPods == "no pods to filter logs from"

\* fmt.Sprintf("[%s] is not a valid container in pod [%s]", containerName, podName)
ErrNotValid(containerName, podName) ==
    "[" \o containerName \o "] is not a valid container in pod [" \o podName \o "]"

\* Variant of containerMatches: only the first container is compared.
containerMatchesFirstOnly(containers, containerName, j) ==
    /\ j <= Len(containers)
    /\ (containerName = "" \/ containerName = containers[j])

\* Variant of containerMatches: the container name is not compared.
containerMatchesAny(containers, containerName, j) ==
    j <= Len(containers)

\* The inner loop over pod.Spec.Containers, from container j on.
RECURSIVE containerMatches(_, _, _)
containerMatches(containers, containerName, j) ==
    IF j > Len(containers) THEN FALSE
    ELSE IF containerName = "" \/ containerName = containers[j] THEN TRUE
    ELSE containerMatches(containers, containerName, j + 1)

\* Variant of scanPods: the scan goes on after a match, the last match wins.
RECURSIVE scanPodsLastMatch(_, _, _, _)
scanPodsLastMatch(items, podName, containerName, i) ==
    IF i > Len(items)
    THEN [filter |-> logFilter(ZeroPod, ""),
          err |-> ErrNotValid(containerName, podName)]
    ELSE LET rest == scanPodsLastMatch(items, podName, containerName, i + 1)
         IN  IF rest.err = NilErr THEN rest
             ELSE IF /\ (podName = "" \/ podName = items[i].Name)
                     /\ containerMatches(items[i].Containers, containerName, 1)
             THEN [filter |-> logFilter(items[i], containerName), err |-> NilErr]
             ELSE rest

\* The outer loop over pods.Items, from pod i on, and the final error.
RECURSIVE scanPods(_, _, _, _)
scanPods(items, podName, containerName, i) ==
    IF i > Len(items)
    THEN [filter |-> logFilter(ZeroPod, ""),
          err |-> ErrNotValid(containerName, podName)]
    ELSE IF /\ (podName = "" \/ podName = items[i].Name)
            /\ containerMatches(items[i].Containers, containerName, 1)
    THEN [filter |-> logFilter(items[i], containerName), err |-> NilErr]
    ELSE scanPods(items, podName, containerName, i + 1)

\* podName: args[0] when there is exactly one argument.
podNameOf(args) == IF Len(args) = 1 THEN args[1] ELSE ""

validateArgs(args, pods, containerName) ==
    IF pods.isNil
    THEN [filter |-> logFilter(ZeroPod, ""), err |-> ErrNoPods]
    ELSE IF podNameOf(args) = "" /\ containerName = ""
    THEN [filter |-> logFilter(ZeroPod, ""), err |-> NilErr]
    ELSE scanPods(pods.Items, podNameOf(args), containerName, 1)

\* The (pod name, container name) pairs in the order of the nested loops of
\* runLogOutput.
RECURSIVE containerPairs(_, _)
containerPairs(name, containers) ==
    IF containers = <<>> THEN <<>>
    ELSE <<[p |-> name, c |-> containers[1]]>> \o containerPairs(name, Tail(containers))

RECURSIVE podPairs(_)
podPairs(items) ==
    IF items = <<>> THEN <<>>
    ELSE containerPairs(items[1].Name, items[1].Containers) \o podPairs(Tail(items))

\* ------------------------------------------------------------------ state
VARIABLES
    pc,          \* where the main goroutine is
    call,        \* the arguments and results of newLogOptions, while in scope
    listErr,     \* history: the error the List call of newLogOptions returned
    retErr,      \* the error RunE returned
    opts,        \* *logCmdOpts given to runLogOutput
    spawned,     \* how many go statements runLogOutput has executed
    tailers,     \* the goroutines, by spawn order
    colorPicker, \* the ColorPicker of the run
    line,        \* the line the main goroutine received from lineRead
    received,    \* history: every line received from lineRead, in order
    stdout,      \* everything written to os.Stdout, in order
    assigned,    \* history: the identifiers given a colour and the colour pick
                 \* returned then, in the order given
    mu,          \* c.mu, when pick is followed statement by statement: 0, or
                 \* the goroutine that holds it
    gor          \* the goroutines that call pick statement by statement

vars == <<pc, call, listErr, retErr, opts, spawned, tailers, colorPicker, line,
          received, stdout, assigned, mu, gor>>

NoCall == [inScope |-> FALSE, args |-> <<>>, containerFilter |-> "",
           pods |-> NilPodList,
           filter |-> logFilter(ZeroPod, ""), err |-> NilErr]
NoOpts == [controlPlanePods |-> NilPodList, filter |-> logFilter(ZeroPod, "")]
NoLine == FormatLine("", "", 0)

Init ==
    /\ pc = "start"
    /\ call = NoCall
    /\ listErr = NilErr
    /\ retErr = NilErr
    /\ opts = NoOpts
    /\ spawned = 0
    /\ tailers = <<>>
    /\ colorPicker = newColorPicker
    /\ line = NoLine
    /\ received = <<>>
    /\ stdout = <<>>
    /\ assigned = <<>>
    /\ mu = 0
    /\ gor = <<>>

\* ---------------------------------------------------------------- program
Filtered(o) ==
    ~(o.filter.targetPod.Name = "" /\ o.filter.targetContainerName = "")

\* The process is running its goroutines: os.Exit has not been called.
Alive == pc \in {"spawn", "recv", "write", "exiting"}

\* What a goroutine is started with, and its locals.
NewTailer(pair) ==
    [p |-> pair.p, c |-> pair.c, st |-> "open", stream |-> "none",
     nread |-> 0, bytes |-> 0, msg |-> NoLine]

\* The lines read so far from all the streams together.
RECURSIVE LinesRead(_)
LinesRead(ts) ==
    IF ts = <<>> THEN 0 ELSE ts[1].nread + LinesRead(Tail(ts))

\* Variant of Fprint: the line is written before what was written so far.
FprintInFront(w, ln) ==
    <<[by |-> "Fprint", color |-> ln.color, id |-> ln.id, bytes |-> ln.bytes]>> \o w

\* Variant of Fprint: the line is written twice.
FprintTwice(w, ln) ==
    w \o <<[by |-> "Fprint", color |-> ln.color, id |-> ln.id, bytes |-> ln.bytes],
           [by |-> "Fprint", color |-> ln.color, id |-> ln.id, bytes |-> ln.bytes]>>

\* fmt.Fprint(writer, line) that succeeds: the line is appended to the writer,
\* which RunE sets to os.Stdout.
Fprint(w, ln) ==
    Append(w, [by |-> "Fprint", color |-> ln.color, id |-> ln.id, bytes |-> ln.bytes])

\* fmt.Printf("ERR: %s\n", err): a line on os.Stdout that is no log line.
PrintfErr(w) ==
    Append(w, [by |-> "Printf", color |-> "", id |-> "ERR:", bytes |-> 0])

\* Variant of NewLogOptions: the error of validateArgs is not looked at.
NewLogOptionsErrIgnored(setupErr, args, containerFilter, listed) ==
    /\ pc = "start"
    /\ IF setupErr # NilErr
       THEN /\ pc' = "returned"
            /\ retErr' = setupErr
            /\ UNCHANGED <<call, opts, listErr>>
       ELSE LET r == validateArgs(args, listed.pods, containerFilter)
            IN  /\ call' = [inScope |-> TRUE, args |-> args,
                            containerFilter |-> containerFilter,
                            pods |-> listed.pods,
                            filter |-> r.filter, err |-> r.err]
                /\ listErr' = listed.err
                /\ pc' = "run"
                /\ opts' = [controlPlanePods |-> listed.pods, filter |-> r.filter]
                /\ UNCHANGED retErr
    /\ UNCHANGED <<mu, gor, spawned, tailers, colorPicker, line, received, stdout, assigned>>

\* newLogOptions as RunE calls it: the client set-up, the List call (whose
\* error is overwritten unread), validateArgs, and RunE's `return err`.
NewLogOptions(setupErr, args, containerFilter, listed) ==
    /\ pc = "start"
    /\ IF setupErr # NilErr
       THEN /\ pc' = "returned"
            /\ retErr' = setupErr
            /\ UNCHANGED <<call, opts, listErr>>
       ELSE LET r == validateArgs(args, listed.pods, containerFilter)
            IN  /\ call' = [inScope |-> TRUE, args |-> args,
                            containerFilter |-> containerFilter,
                            pods |-> listed.pods,
                            filter |-> r.filter, err |-> r.err]
                /\ listErr' = listed.err
                /\ IF r.err # NilErr
                   THEN /\ pc' = "returned"
                        /\ retErr' = r.err
                        /\ UNCHANGED opts
                   ELSE /\ pc' = "run"
                        /\ opts' = [controlPlanePods |-> listed.pods,
                                    filter |-> r.filter]
                        /\ UNCHANGED retErr
    /\ UNCHANGED <<mu, gor, spawned, tailers, colorPicker, line, received, stdout, assigned>>

\* The command is run: any command line, any outcome of the set-up and of
\* the List call over the given lists.
RunE(lists) ==
    /\ pc = "start"
    /\ \E setupErr \in {NilErr, "setup failed"}, args \in SeqsOf(ArgValues, 0, MaxArgs),
          containerFilter \in ContainerFilters, listed \in ListResults(lists) :
          NewLogOptions(setupErr, args, containerFilter, listed)

\* RunE calls runLogOutput(os.Stdout, opts): the channel and the picker are
\* made; the locals of newLogOptions are gone.
RunLogOutput ==
    /\ pc = "run"
    /\ pc' = "spawn"
    /\ call' = NoCall
    /\ colorPicker' = newColorPicker
    /\ UNCHANGED <<listErr, mu, gor, retErr, opts, spawned, tailers, line, received, stdout, assigned>>

\* One `go func(p, c string) {...}(pod.Name, container.Name)` of the nested
\* loops, taken only in an unfiltered run.
Spawn ==
    /\ pc = "spawn"
    /\ ~Filtered(opts)
    /\ spawned < Len(podPairs(opts.controlPlanePods.Items))
    /\ spawned' = spawned + 1
    /\ tailers' = Append(tailers, NewTailer(podPairs(opts.controlPlanePods.Items)[spawned + 1]))
    /\ UNCHANGED <<listErr, mu, gor, pc, call, retErr, opts, colorPicker, line, received, stdout, assigned>>

\* Variant of EnterLoop: the loops are left after any number of go statements.
EnterLoopEarly ==
    /\ pc = "spawn"
    /\ pc' = "recv"
    /\ UNCHANGED <<listErr, mu, gor, call, retErr, opts, spawned, tailers, colorPicker, line,
                   received, stdout, assigned>>

\* Variant of EnterLoop: with no goroutine started runLogOutput returns nil.
EnterLoopUnlessNone ==
    /\ pc = "spawn"
    /\ Filtered(opts) \/ spawned = Len(podPairs(opts.controlPlanePods.Items))
    /\ pc' = IF tailers = <<>> THEN "returned" ELSE "recv"
    /\ UNCHANGED <<listErr, mu, gor, call, retErr, opts, spawned, tailers, colorPicker, line,
                   received, stdout, assigned>>

\* The `if` is skipped or the loops are done: the main goroutine enters the
\* `for { select { ... } }` loop.
EnterLoop ==
    /\ pc = "spawn"
    /\ Filtered(opts) \/ spawned = Len(podPairs(opts.controlPlanePods.Items))
    /\ pc' = "recv"
    /\ UNCHANGED <<listErr, mu, gor, call, retErr, opts, spawned, tailers, colorPicker, line,
                   received, stdout, assigned>>

\* GetLogs(p, ...).Stream() succeeds: defer stream.Close(), the reader is made.
StreamOpen(k) ==
    /\ Alive
    /\ k \in 1..Len(tailers)
    /\ tailers[k].st = "open"
    /\ tailers' = [tailers EXCEPT ![k].st = "read", ![k].stream = "open"]
    /\ UNCHANGED <<listErr, mu, gor, pc, call, retErr, opts, spawned, colorPicker, line, received,
                   stdout, assigned>>

\* Stream() fails: the goroutine returns.
StreamOpenFail(k) ==
    /\ Alive
    /\ k \in 1..Len(tailers)
    /\ tailers[k].st = "open"
    /\ tailers' = [tailers EXCEPT ![k].st = "done"]
    /\ UNCHANGED <<listErr, mu, gor, pc, call, retErr, opts, spawned, colorPicker, line, received,
                   stdout, assigned>>

\* Variant of ReadLine: a goroutine whose line has not been received yet
\* drops it and reads the next one.
ReadLineNoStall(k) ==
    /\ Alive
    /\ k \in 1..Len(tailers)
    /\ tailers[k].st \in {"read", "send"}
    /\ LinesRead(tailers) < MaxLines
    /\ LET id == loglineID(tailers[k].p, tailers[k].c)
           r  == pick(colorPicker, id)
           n  == tailers[k].nread + 1
       IN  /\ colorPicker' = r.picker
           /\ assigned' = Assigned(assigned, colorPicker, id, r.color)
           /\ tailers' = [tailers EXCEPT ![k].st = "send", ![k].nread = n,
                                         ![k].bytes = n,
                                         ![k].msg = FormatLine(r.color, id, n)]
    /\ UNCHANGED <<listErr, mu, gor, pc, call, retErr, opts, spawned, line, received, stdout>>

\* ReadBytes('\n') returns a complete line: the identifier is coloured by
\* pick and the formatted line is ready to be sent on lineRead.
ReadLine(k) ==
    /\ Alive
    /\ k \in 1..Len(tailers)
    /\ tailers[k].st = "read"
    /\ LinesRead(tailers) < MaxLines
    /\ LET id == loglineID(tailers[k].p, tailers[k].c)
           r  == pick(colorPicker, id)
           n  == tailers[k].nread + 1
       IN  /\ colorPicker' = r.picker
           /\ assigned' = Assigned(assigned, colorPicker, id, r.color)
           /\ tailers' = [tailers EXCEPT ![k].st = "send", ![k].nread = n,
                                         ![k].bytes = n,
                                         ![k].msg = FormatLine(r.color, id, n)]
    /\ UNCHANGED <<listErr, mu, gor, pc, call, retErr, opts, spawned, line, received, stdout>>

\* Variant of ReadErr: the read error ends the process.
ReadErrFatal(k, partial) ==
    /\ Alive
    /\ k \in 1..Len(tailers)
    /\ tailers[k].st = "read"
    /\ stdout' = PrintfErr(stdout)
    /\ tailers' = [tailers EXCEPT ![k].st = "done", ![k].stream = "closed",
                                  ![k].bytes = IF partial THEN Unterminated(tailers[k].nread + 1)
                                               ELSE 0]
    /\ pc' = "exited"
    /\ UNCHANGED <<listErr, mu, gor, call, retErr, opts, spawned, colorPicker, line, received, assigned>>

\* Variant of ReadErr: the goroutine returns without closing its stream.
ReadErrNoClose(k, partial) ==
    /\ Alive
    /\ k \in 1..Len(tailers)
    /\ tailers[k].st = "read"
    /\ stdout' = PrintfErr(stdout)
    /\ tailers' = [tailers EXCEPT ![k].st = "done", ![k].bytes = IF partial THEN Unterminated(tailers[k].nread + 1)
                                               ELSE 0]
    /\ UNCHANGED <<listErr, mu, gor, pc, call, retErr, opts, spawned, colorPicker, line, received, assigned>>

\* Variant of ReadErr: the bytes read before the error are sent as a line.
ReadErrSendsBytes(k, partial) ==
    /\ Alive
    /\ k \in 1..Len(tailers)
    /\ tailers[k].st = "read"
    /\ stdout' = PrintfErr(stdout)
    /\ tailers' = [tailers EXCEPT
          ![k].st = IF partial THEN "send" ELSE "done",
          ![k].stream = IF partial THEN "open" ELSE "closed",
          ![k].bytes = IF partial THEN Unterminated(tailers[k].nread + 1) ELSE 0,
          ![k].msg = IF partial
                     THEN FormatLine("", loglineID(tailers[k].p, tailers[k].c),
                                     Unterminated(tailers[k].nread + 1))
                     ELSE NoLine]
    /\ UNCHANGED <<listErr, mu, gor, pc, call, retErr, opts, spawned, colorPicker, line, received, assigned>>

\* ReadBytes returns an error, together with the unterminated bytes read so
\* far, if any, which are assigned to `bytes`: the error is printed, the
\* deferred Close runs and the goroutine returns.
ReadErr(k, partial) ==
    /\ Alive
    /\ k \in 1..Len(tailers)
    /\ tailers[k].st = "read"
    /\ stdout' = PrintfErr(stdout)
    /\ tailers' = [tailers EXCEPT ![k].st = "done", ![k].stream = "closed",
                                  ![k].bytes = IF partial THEN Unterminated(tailers[k].nread + 1)
                                               ELSE 0]
    /\ UNCHANGED <<listErr, mu, gor, pc, call, retErr, opts, spawned, colorPicker, line, received, assigned>>

\* `case line := <-lineRead` meets the send of tailer k (the channel has no
\* buffer): the tailer goes back to reading.
Receive(k) ==
    /\ pc = "recv"
    /\ k \in 1..Len(tailers)
    /\ tailers[k].st = "send"
    /\ line' = tailers[k].msg
    /\ received' = Append(received, tailers[k].msg)
    /\ tailers' = [tailers EXCEPT ![k].st = "read", ![k].msg = NoLine]
    /\ pc' = "write"
    /\ UNCHANGED <<listErr, mu, gor, call, retErr, opts, spawned, colorPicker, stdout, assigned>>

\* fmt.Fprint(writer, line) succeeds.
Write ==
    /\ pc = "write"
    /\ stdout' = Fprint(stdout, line)
    /\ line' = NoLine
    /\ pc' = "recv"
    /\ UNCHANGED <<listErr, mu, gor, call, retErr, opts, spawned, tailers, colorPicker, received, assigned>>

\* Variant of WriteFail: the error of Fprint is ignored, the loop goes on.
WriteFailIgnored ==
    /\ pc = "write"
    /\ pc' = "recv"
    /\ line' = NoLine
    /\ UNCHANGED <<listErr, mu, gor, call, retErr, opts, spawned, tailers, colorPicker,
                   received, stdout, assigned>>

\* fmt.Fprint fails: err != nil, the main goroutine is about to call os.Exit.
WriteFail ==
    /\ pc = "write"
    /\ pc' = "exiting"
    /\ UNCHANGED <<listErr, mu, gor, call, retErr, opts, spawned, tailers, colorPicker, line,
                   received, stdout, assigned>>

\* os.Exit(1): the process ends, with all its goroutines where they are.
Exit ==
    /\ pc = "exiting"
    /\ pc' = "exited"
    /\ UNCHANGED <<listErr, mu, gor, call, retErr, opts, spawned, tailers, colorPicker, line,
                   received, stdout, assigned>>

Next ==
    \/ RunE(CanonPodItems)
    \/ RunLogOutput
    \/ Spawn
    \/ EnterLoop
    \/ \E k \in 1..MaxTailers : StreamOpen(k)
    \/ \E k \in 1..MaxTailers : StreamOpenFail(k)
    \/ \E k \in 1..MaxTailers : ReadLine(k)
    \/ \E k \in 1..MaxTailers : ReadErr(k, FALSE)
    \/ \E k \in 1..MaxTailers : Receive(k)
    \/ Write
    \/ WriteFail
    \/ Exit

\* The command, every stream failing at the end of a line: the bytes that
\* may come with a read error change nothing but the goroutine's `bytes`.
Spec == Init /\ [][Next]_vars

\* The command, a stream failing at the end of a line or within a line.
NextBytes ==
    \/ Next
    \/ \E k \in 1..MaxTailers : ReadErr(k, TRUE)

SpecBytes == Init /\ [][NextBytes]_vars

\* The receive of the main goroutine, from whichever goroutine is sending.
ReceiveAny == \E k \in 1..MaxTailers : Receive(k)

\* The scheduler runs the main goroutine: it goes through its go statements
\* and into its loop, it receives when a goroutine is sending, and a write
\* that can be made is made unless it fails.  Nothing is assumed of the
\* goroutines' own steps, nor of the streams.
Fairness ==
    /\ WF_vars(Spawn)
    /\ WF_vars(EnterLoop)
    /\ WF_vars(ReceiveAny)
    /\ WF_vars(Write)

SpecFair == Init /\ [][Next]_vars /\ Fairness

\* ------------------------------------------------- ColorPicker, stepwise
\* The colour picker alone, pick followed statement by statement: goroutine g
\* is the tailer of the g-th pod and calls pick(loglineID) any number of
\* times, for more identifiers than the palette has colours.
PickID(g) == loglineID(AllPodNames[g], AllContainerNames[1])

\* A goroutine outside pick.  Inside, ret is the colour it will return and
\* atLock (history) the picker as it was when the goroutine took the mutex.
Idle == [pc |-> "idle", ret |-> "", atLock |-> newColorPicker]

InitPicker ==
    /\ pc = "recv"
    /\ call = NoCall
    /\ listErr = NilErr
    /\ retErr = NilErr
    /\ opts = NoOpts
    /\ spawned = 0
    /\ tailers = <<>>
    /\ colorPicker = newColorPicker
    /\ line = NoLine
    /\ received = <<>>
    /\ stdout = <<>>
    /\ assigned = <<>>
    /\ mu = 0
    /\ gor = [g \in 1..NumPickIDs |-> Idle]

\* Variant of PickLock: the mutex is not waited for.
PickLockNoMutex(g) ==
    /\ Alive
    /\ g \in DOMAIN gor
    /\ gor[g].pc = "idle"
    /\ mu' = g
    /\ gor' = [gor EXCEPT ![g].pc = "lookup", ![g].atLock = colorPicker]
    /\ UNCHANGED <<listErr, pc, call, retErr, opts, spawned, tailers, colorPicker, line,
                   received, stdout, assigned>>

\* c.mu.Lock(); defer c.mu.Unlock()
PickLock(g) ==
    /\ Alive
    /\ g \in DOMAIN gor
    /\ gor[g].pc = "idle"
    /\ mu = 0
    /\ mu' = g
    /\ gor' = [gor EXCEPT ![g].pc = "lookup", ![g].atLock = colorPicker]
    /\ UNCHANGED <<listErr, pc, call, retErr, opts, spawned, tailers, colorPicker, line,
                   received, stdout, assigned>>

\* Variant of PickLookup: the table is not consulted.
PickLookupAlwaysMisses(g) ==
    /\ Alive
    /\ g \in DOMAIN gor
    /\ gor[g].pc = "lookup"
    /\ gor' = [gor EXCEPT ![g].pc = "wrap"]
    /\ UNCHANGED <<listErr, pc, call, retErr, opts, spawned, tailers, colorPicker, line,
                   received, stdout, assigned, mu>>

\* if color, ok := c.m[id]; ok { return color }
PickLookup(g) ==
    /\ Alive
    /\ g \in DOMAIN gor
    /\ gor[g].pc = "lookup"
    /\ IF PickID(g) \in DOMAIN colorPicker.m
       THEN gor' = [gor EXCEPT ![g].pc = "unlock", ![g].ret = colorPicker.m[PickID(g)]]
       ELSE gor' = [gor EXCEPT ![g].pc = "wrap"]
    /\ UNCHANGED <<listErr, pc, call, retErr, opts, spawned, tailers, colorPicker, line,
                   received, stdout, assigned, mu>>

\* if c.lastUsedColor > len(c.availableColors)-1 { c.lastUsedColor = 0 }
PickWrap(g) ==
    /\ Alive
    /\ g \in DOMAIN gor
    /\ gor[g].pc = "wrap"
    /\ colorPicker' = [colorPicker EXCEPT !.lastUsedColor = pickCursor(colorPicker)]
    /\ gor' = [gor EXCEPT ![g].pc = "assign"]
    /\ UNCHANGED <<listErr, pc, call, retErr, opts, spawned, tailers, line, received,
                   stdout, assigned, mu>>

\* c.m[id] = c.availableColors[c.lastUsedColor]; an index outside the slice
\* panics.
PickAssign(g) ==
    /\ Alive
    /\ g \in DOMAIN gor
    /\ gor[g].pc = "assign"
    /\ IF colorPicker.lastUsedColor \in 0..(Len(availableColors) - 1)
       THEN /\ colorPicker' =
                  [colorPicker EXCEPT !.m = MapPut(colorPicker.m, PickID(g),
                                          availableColors[colorPicker.lastUsedColor + 1])]
            /\ gor' = [gor EXCEPT ![g].pc = "incr"]
            /\ pc' = pc
       ELSE /\ pc' = "panicked"
            /\ UNCHANGED <<colorPicker, gor>>
    /\ UNCHANGED <<listErr, call, retErr, opts, spawned, tailers, line, received, stdout,
                   assigned, mu>>

\* c.lastUsedColor++
PickIncr(g) ==
    /\ Alive
    /\ g \in DOMAIN gor
    /\ gor[g].pc = "incr"
    /\ colorPicker' = [colorPicker EXCEPT !.lastUsedColor = colorPicker.lastUsedColor + 1]
    /\ gor' = [gor EXCEPT ![g].pc = "return"]
    /\ UNCHANGED <<listErr, pc, call, retErr, opts, spawned, tailers, line, received,
                   stdout, assigned, mu>>

\* return c.m[id], after an assignment
PickReturn(g) ==
    /\ Alive
    /\ g \in DOMAIN gor
    /\ gor[g].pc = "return"
    /\ gor' = [gor EXCEPT ![g].pc = "unlock", ![g].ret = colorPicker.m[PickID(g)]]
    /\ assigned' = Append(assigned, [id |-> PickID(g), color |-> colorPicker.m[PickID(g)]])
    /\ UNCHANGED <<listErr, pc, call, retErr, opts, spawned, tailers, colorPicker, line,
                   received, stdout, mu>>

\* The deferred c.mu.Unlock(); the caller has the colour.
PickUnlock(g) ==
    /\ Alive
    /\ g \in DOMAIN gor
    /\ gor[g].pc = "unlock"
    /\ mu' = 0
    /\ gor' = [gor EXCEPT ![g] = Idle]
    /\ UNCHANGED <<listErr, pc, call, retErr, opts, spawned, tailers, colorPicker, line,
                   received, stdout, assigned>>

NextPicker ==
    \/ \E g \in 1..NumPickIDs : PickLock(g)
    \/ \E g \in 1..NumPickIDs : PickLookup(g)
    \/ \E g \in 1..NumPickIDs : PickWrap(g)
    \/ \E g \in 1..NumPickIDs : PickAssign(g)
    \/ \E g \in 1..NumPickIDs : PickIncr(g)
    \/ \E g \in 1..NumPickIDs : PickReturn(g)
    \/ \E g \in 1..NumPickIDs : PickUnlock(g)

SpecPicker == InitPicker /\ [][NextPicker]_vars

\* newLogOptions alone, on every list of pods.
NextResolve == RunE(PodItems)

SpecResolve == Init /\ [][NextResolve]_vars

\* ================================================================ claims
P == Len(availableColors)

\* The lines fmt.Fprint wrote to the writer, in order.
IsFprint(e) == e.by = "Fprint"
LineOf(e) == FormatLine(e.color, e.id, e.bytes)
RECURSIVE LinesOf(_)
LinesOf(es) == IF es = <<>> THEN <<>> ELSE <<LineOf(es[1])>> \o LinesOf(Tail(es))
Written == LinesOf(SelectSeq(stdout, IsFprint))

\* The colour identifier id was given when it was assigned.
AssignedColor(id) == (CHOOSE e \in {assigned[k] : k \in 1..Len(assigned)} : e.id = id).color
AssignedIDs == {assigned[k].id : k \in 1..Len(assigned)}

\* The critical section as one step: when a goroutine is about to release the
\* mutex, the picker and the colour it returns are what pick, applied to the
\* picker as it was when the goroutine took the mutex, gives.
PickIsAtomic ==
    \A g \in DOMAIN gor :
        gor[g].pc = "unlock"
            => pick(gor[g].atLock, PickID(g)) = [picker |-> colorPicker, color |-> gor[g].ret]

\* C1: once an identifier has been given a colour, its entry stays in the
\* table with that colour, whatever the goroutines are doing, and every pick
\* of it that returns, returns that colour; no entry is ever removed.
C1_ColorStable ==
    /\ \A k \in 1..Len(assigned) :
          /\ assigned[k].id \in DOMAIN colorPicker.m
          /\ colorPicker.m[assigned[k].id] = assigned[k].color
    /\ \A j, k \in 1..Len(assigned) : j # k => assigned[j].id # assigned[k].id
    /\ \A g \in DOMAIN gor :
          gor[g].pc = "unlock"
              => /\ PickID(g) \in AssignedIDs
                 /\ gor[g].ret = AssignedColor(PickID(g))
    /\ AssignedIDs \subseteq DOMAIN colorPicker.m

\* C1 witness: an identifier assigned before the palette wrapped around is
\* picked again afterwards, by a goroutine about to return its colour.
C1_Witness ==
    /\ Len(assigned) = P + 1
    /\ \E g \in DOMAIN gor :
          /\ gor[g].pc = "unlock"
          /\ PickID(g) = assigned[1].id

\* C2: the k-th identifier to be assigned has palette entry (k-1) mod P; with
\* no goroutine inside pick the cursor is where k assignments leave it, so a
\* pick of a known identifier has not moved it.
C2_RoundRobin ==
    /\ \A k \in 1..Len(assigned) :
          assigned[k].color = availableColors[((k - 1) % P) + 1]
    /\ mu = 0 =>
          /\ colorPicker.lastUsedColor =
                IF assigned = <<>> THEN 0 ELSE ((Len(assigned) - 1) % P) + 1
          /\ DOMAIN colorPicker.m = AssignedIDs
    /\ pc # "panicked"

\* C2 witness: the (P+1)-th identifier has the colour of the first.
C2_Witness ==
    /\ Len(assigned) >= P + 1
    /\ assigned[P + 1].color = assigned[1].color
    /\ assigned[P + 1].id # assigned[1].id
    /\ mu = 0

\* C3 (as claimed): in a filtered run a tailer is run for the selected source.
C3_FilteredRunTailsSelected ==
    (pc \in {"recv", "write"} /\ Filtered(opts))
        => \E k \in 1..Len(tailers) : tailers[k].p = opts.filter.targetPod.Name

\* C4: of two lines of one stream, the one read earlier is received and
\* written earlier.
C4_OrderWithinSource ==
    /\ \A i, j \in 1..Len(Written) :
          (i < j /\ Written[i].id = Written[j].id)
              => Written[i].bytes < Written[j].bytes
    /\ \A i, j \in 1..Len(received) :
          (i < j /\ received[i].id = received[j].id)
              => received[i].bytes < received[j].bytes

\* C4 witness: two lines of one stream are written with a line of another
\* stream between them.
C4_Witness ==
    \E i, j, k \in 1..Len(Written) :
        /\ i < j /\ j < k
        /\ Written[i].id = Written[k].id
        /\ Written[i].id # Written[j].id

\* C5: what was written to the writer is the sequence of lines received from
\* the channel, in the order received, each once; only the line in hand (being
\* written, or the one whose write failed and ends the process) is missing.
C5_WrittenIsReceived ==
    IF pc \in {"write", "exiting", "exited"}
    THEN received = Append(Written, line)
    ELSE received = Written

\* C5 witness: lines of two streams were received and written.
C5_Witness ==
    /\ pc = "recv"
    /\ Len(received) = MaxLines
    /\ \E i, j \in 1..Len(Written) : Written[i].id # Written[j].id

\* Tailer k ends in this step.
Failing(k) ==
    /\ k \in 1..Len(tailers)
    /\ tailers[k].st # "done"
    /\ tailers'[k].st = "done"

\* A step in which a tailer ends changes nothing of the main goroutine, of the
\* other tailers, of the picker or of the lines received and written.
FailureStepIsLocal ==
    \A k \in 1..MaxTailers :
        Failing(k) =>
            /\ pc' = pc
            /\ line' = line
            /\ received' = received
            /\ Written' = Written
            /\ colorPicker' = colorPicker
            /\ Len(tailers') = Len(tailers)
            /\ \A j \in 1..Len(tailers) : j # k => tailers'[j] = tailers[j]

\* A tailer with a line to send is received as soon as the main goroutine is
\* at its receive, and a tailer at its read can read the next line.
NotBlocked ==
    \A j \in 1..Len(tailers) :
        /\ (pc = "recv" /\ tailers[j].st = "send") => ENABLED Receive(j)
        /\ (Alive /\ tailers[j].st = "read" /\ LinesRead(tailers) < MaxLines)
              => ENABLED ReadLine(j)

\* C6: a tailer that ends on a failure to open or to read its stream leaves
\* the main goroutine, the other tailers, the channel and the lines written as
\* they are; and whatever tailers have ended, every other tailer can still
\* read, send and be received.
C6_Isolation == [][FailureStepIsLocal]_vars /\ []NotBlocked

\* C6 witness: a tailer has failed after one line, and a line of another
\* tailer was written after the error was printed.
C6_Witness ==
    \E k \in 1..Len(tailers) :
        /\ tailers[k].st = "done"
        /\ tailers[k].nread = 1
        /\ \E i, j \in 1..Len(stdout) :
              /\ i < j
              /\ stdout[i].by = "Printf"
              /\ stdout[j].by = "Fprint"
              /\ stdout[j].id # loglineID(tailers[k].p, tailers[k].c)

\* C7: without a pod name and without a container name, validateArgs on a
\* list of pods returns the empty filter and no error, and the run has, once
\* in its loop, exactly one tailer for each container of each pod.
C7_UnfilteredTailsAll ==
    /\ (/\ call.inScope
        /\ podNameOf(call.args) = ""
        /\ call.containerFilter = ""
        /\ ~call.pods.isNil)
          => /\ call.err = NilErr
             /\ call.filter = logFilter(ZeroPod, "")
             /\ pc = "run"
             /\ ~Filtered(opts)
             /\ opts.controlPlanePods = call.pods
    /\ (pc \in {"recv", "write", "exiting", "exited"} /\ ~Filtered(opts))
          => LET items == opts.controlPlanePods.Items
             IN  /\ Len(tailers) = SumLen(items)
                 /\ \A i \in 1..Len(items) : \A j \in 1..Len(items[i].Containers) :
                       Cardinality({k \in 1..Len(tailers) :
                                       /\ tailers[k].p = items[i].Name
                                       /\ tailers[k].c = items[i].Containers[j]}) = 1

\* C7 witness: an unfiltered run on one pod with two containers is in its
\* loop with two tailers.
C7_Witness ==
    /\ pc = "recv"
    /\ ~Filtered(opts)
    /\ Len(opts.controlPlanePods.Items) = 1
    /\ Len(tailers) = 2

\* C8 (as claimed): on an empty list of pods validateArgs fails with the
\* no-pods error, whatever the selector, and the run is not started.
C8_EmptySetFails ==
    /\ (call.inScope /\ call.pods.Items = <<>>)
          => (call.err = ErrNoPods /\ pc = "returned")
    /\ (pc \in {"run", "spawn", "recv", "write", "exiting", "exited"})
          => opts.controlPlanePods.Items # <<>>

\* The pod satisfies the selector.
Satisfies(pod, podName, containerName) ==
    /\ podName = "" \/ pod.Name = podName
    /\ \E j \in 1..Len(pod.Containers) :
          containerName = "" \/ pod.Containers[j] = containerName

\* C9: with a pod name or a container name, on a list with pods, validateArgs
\* fails exactly when no pod has the requested name (or none is requested)
\* together with a container of the requested name (or none is requested);
\* the error then names the requested container and pod, is not the no-pods
\* error, and is what the command returns.
C9_NotFoundIffNoMatch ==
    (/\ call.inScope
     /\ ~call.pods.isNil
     /\ call.pods.Items # <<>>
     /\ ~(podNameOf(call.args) = "" /\ call.containerFilter = ""))
        => LET items == call.pods.Items
               sat == \E i \in 1..Len(items) :
                         Satisfies(items[i], podNameOf(call.args), call.containerFilter)
           IN  /\ (call.err # NilErr) <=> ~sat
               /\ ~sat => /\ call.err = "[" \o call.containerFilter
                                         \o "] is not a valid container in pod ["
                                         \o podNameOf(call.args) \o "]"
                          /\ call.err # ErrNoPods
                          /\ pc = "returned"
                          /\ retErr = call.err

\* C9 witness: the requested pod is in the list, a container of the requested
\* name is in another pod only, and the error names both.
C9_Witness ==
    /\ call.inScope
    /\ call.err = "[stdout] is not a valid container in pod [api]"
    /\ \E i, j \in 1..Len(call.pods.Items) :
          /\ call.pods.Items[i].Name = "api"
          /\ call.pods.Items[i].Containers = <<"proxy">>
          /\ Satisfies(call.pods.Items[j], "", "stdout")

\* C10: when validateArgs succeeds for a pod name and a container name, the
\* filter holds a pod of the list with the requested name and a container of
\* the requested name, and the requested container name.
C10_ExactPair ==
    (/\ call.inScope
     /\ call.err = NilErr
     /\ podNameOf(call.args) # ""
     /\ call.containerFilter # "")
        => /\ call.filter.targetPod.Name = podNameOf(call.args)
           /\ \E j \in 1..Len(call.filter.targetPod.Containers) :
                 call.filter.targetPod.Containers[j] = call.containerFilter
           /\ call.filter.targetContainerName = call.containerFilter
           /\ \E i \in 1..Len(call.pods.Items) :
                 call.pods.Items[i] = call.filter.targetPod

\* C10 witness: the requested container is the second of its pod.
C10_Witness ==
    /\ call.inScope
    /\ call.err = NilErr
    /\ podNameOf(call.args) = "api"
    /\ call.containerFilter = "stdout"
    /\ Len(call.filter.targetPod.Containers) = 2
    /\ call.filter.targetPod.Containers[2] = "stdout"
    /\ call.filter.targetContainerName = "stdout"

\* The positions of the pods of the call's list that satisfy its selector.
Matching ==
    {i \in 1..Len(call.pods.Items) :
        Satisfies(call.pods.Items[i], podNameOf(call.args), call.containerFilter)}

\* The smallest element of a non-empty set of positions.
Least(S) == CHOOSE i \in S : \A j \in S : i <= j

\* C11: with a pod name or a container name, when pods of the list satisfy
\* the selector, validateArgs returns the one at the smallest position, and
\* returns the same on the list cut after that pod: two lists that agree up
\* to their first match give the same result, whatever pods follow it.
C11_FirstMatchWins ==
    (/\ call.inScope
     /\ ~call.pods.isNil
     /\ ~(podNameOf(call.args) = "" /\ call.containerFilter = "")
     /\ Matching # {})
        => LET items == call.pods.Items
               first == Least(Matching)
               upTo  == SubSeq(items, 1, first)
           IN  /\ call.err = NilErr
               /\ call.filter = logFilter(items[first], call.containerFilter)
               /\ validateArgs(call.args, PodList(upTo), call.containerFilter)
                     = [filter |-> call.filter, err |-> call.err]

\* C11 witness: two different pods satisfy the selector and the first of them
\* is returned.
C11_Witness ==
    /\ call.inScope
    /\ call.containerFilter = "stdout"
    /\ Cardinality(Matching) = 2
    /\ \E i, j \in Matching : i < j /\ call.pods.Items[i] # call.pods.Items[j]
    /\ call.filter.targetPod = call.pods.Items[Least(Matching)]
    /\ call.filter.targetPod.Containers # <<"stdout">>

\* C12 (as claimed): when the List call fails, the command returns an error,
\* with no tailer started and the loop of runLogOutput never entered.
C12_DiscoveryFailureAborts ==
    listErr # NilErr
        => /\ pc = "returned"
           /\ retErr # NilErr
           /\ tailers = <<>>

\* The write of the line in hand fails in this step: the main goroutine
\* leaves its write and the line has not been written.
SinkFailureStep ==
    /\ pc = "write"
    /\ pc' # "write"
    /\ Written' = Written

\* After a failed write the main goroutine receives no line and writes none,
\* and its only step is the exit.
FailedWriteIsLast ==
    pc \in {"exiting", "exited"}
        => /\ pc' \in {pc, "exited"}
           /\ received' = received
           /\ Written' = Written
           /\ line' = line

\* C13: a step in which the write of the line in hand fails takes the main
\* goroutine to os.Exit, whatever state the tailers are in; from the failed
\* write on no line is received from the channel and none is written by the
\* main goroutine; the exit is always possible, and once the process has
\* ended no goroutine takes a step.
C13_SinkFailureIsFatal ==
    /\ [][(SinkFailureStep => pc' = "exiting") /\ FailedWriteIsLast]_vars
    /\ [](pc = "exiting" => ENABLED Exit)
    /\ [](pc = "exited" => ~ENABLED Next)

\* C13 witness: the second write failed while one tailer had a line to send
\* and another was reading.
C13_Witness ==
    /\ pc = "exited"
    /\ Len(received) = 2
    /\ Len(Written) = 1
    /\ \E j, k \in 1..Len(tailers) :
          /\ tailers[j].st = "send"
          /\ tailers[k].st = "read"

\* C14 (as claimed): a tailer that ends on a read failure has written nothing
\* to the output of the process and has sent nothing on the channel for it:
\* everything on os.Stdout is a line written by the main goroutine, and a
\* tailer that has ended holds no line to send.
C14_ReadFailureIsSilent ==
    /\ \A i \in 1..Len(stdout) : IsFprint(stdout[i])
    /\ Len(received) = LinesRead(tailers)
          - Cardinality({k \in 1..Len(tailers) : tailers[k].st = "send"})
    /\ \A k \in 1..Len(tailers) : tailers[k].st = "done" => tailers[k].msg = NoLine

\* The stream of each goroutine is what its position requires: not yet opened
\* before Stream() returns, open while the goroutine reads or sends, and closed
\* once a goroutine that had opened it has returned.
StreamMatchesPosition ==
    \A k \in 1..Len(tailers) :
        /\ tailers[k].st = "open" => tailers[k].stream = "none"
        /\ tailers[k].st \in {"read", "send"} => tailers[k].stream = "open"
        /\ tailers[k].st = "done" => tailers[k].stream \in {"none", "closed"}

\* An open stream stays open unless its goroutine returns in the step, and
\* is closed in the step in which its goroutine returns.
ClosedOnReturn ==
    \A k \in 1..Len(tailers) :
        tailers[k].stream = "open"
            => tailers'[k].stream = IF tailers'[k].st = "done" THEN "closed" ELSE "open"

\* C15: a stream that was opened is closed in the very step in which its
\* goroutine leaves the read loop, so that a goroutine that has returned has
\* no open stream, and a goroutine that reads or sends has its stream open.
\* (A goroutine stopped by os.Exit has not left its loop.)
C15_StreamClosedOnReturn == []StreamMatchesPosition /\ [][ClosedOnReturn]_vars

\* C15 witness: a goroutine has returned after a read error on its second
\* read, its stream closed, while another holds a line to send, its stream
\* open.
C15_Witness ==
    \E j, k \in 1..Len(tailers) :
        /\ tailers[j].st = "done"
        /\ tailers[j].nread = 1
        /\ tailers[j].stream = "closed"
        /\ tailers[k].st = "send"
        /\ tailers[k].stream = "open"

\* runLogOutput has been called.
InRunLogOutput == pc \in {"spawn", "recv", "write", "exiting", "exited"}

\* Once called, runLogOutput does not return, and the process ends only
\* after a failed write.
NoReturn ==
    InRunLogOutput
        => /\ InRunLogOutput'
           /\ pc' = "exiting" => pc \in {"write", "exiting"}
           /\ pc' = "exited" => pc \in {"exiting", "exited"}

\* The main goroutine at its receive with no goroutine left that could send.
Idling ==
    /\ pc = "recv"
    /\ \A k \in 1..Len(tailers) : tailers[k].st = "done"

\* C16: once runLogOutput is called RunE never returns, and the process ends
\* only by os.Exit after a failed write; with every goroutine returned, or
\* none started, the main goroutine stays at its receive and nothing more
\* happens.
C16_LoopNeverReturns == [][NoReturn]_vars /\ [](Idling => ~ENABLED Next)

\* C16 witness: the main goroutine is at its receive after two goroutines
\* have written lines and returned.
C16_Witness ==
    /\ Idling
    /\ Len(tailers) = 2
    /\ \E i, j \in 1..Len(Written) : Written[i].id # Written[j].id

\* A write to the writer has failed.
SinkFailed == pc \in {"exiting", "exited"}

\* Line n of the stream of goroutine k has been written.
IsWritten(k, n) ==
    \E i \in 1..Len(Written) :
        /\ Written[i].id = loglineID(tailers[k].p, tailers[k].c)
        /\ Written[i].bytes = n

\* Every line read so far has been written, and nothing else.
AllReadWritten ==
    /\ \A k \in 1..Len(tailers) : \A n \in 1..tailers[k].nread : IsWritten(k, n)
    /\ Len(Written) = LinesRead(tailers)

\* The lines of goroutine k received so far.
ReceivedOf(k) ==
    Cardinality({i \in 1..Len(received) :
                    received[i].id = loglineID(tailers[k].p, tailers[k].c)})

\* A goroutine has at most one line not yet received, the one it is sending,
\* and cannot read while it is sending.
StallsUntilReceived ==
    \A k \in 1..Len(tailers) :
        /\ tailers[k].nread = ReceivedOf(k) + (IF tailers[k].st = "send" THEN 1 ELSE 0)
        /\ tailers[k].st = "send" => ~ENABLED ReadLine(k)

\* C17: with the main goroutine scheduled fairly, unless a write fails there
\* comes a time from which every line read from the streams (finitely many
\* here) has been written through the writer, each line n of each goroutine
\* among them, and as many lines are written as were read from all the
\* streams together; and a goroutine reads its next line only after its
\* previous line was received.
C17_StallNotDrop ==
    /\ <>[](SinkFailed \/ AllReadWritten)
    /\ []StallsUntilReceived

\* C17 witness: two goroutines are stalled in their sends, each with a line
\* read, while the main goroutine writes the line it received before.
C17_Witness ==
    /\ pc = "write"
    /\ Len(tailers) = 2
    /\ \A k \in 1..Len(tailers) : tailers[k].st = "send"
    /\ LinesRead(tailers) = 3

\* C18: when validateArgs returns an error, RunE has returned that error with
\* no goroutine started, no stream opened, no line received and nothing
\* written; and after RunE has returned nothing more happens.
C18_SelectionErrorBeforeRun ==
    /\ (call.inScope /\ call.err # NilErr)
          => /\ pc = "returned"
             /\ retErr = call.err
             /\ spawned = 0
             /\ tailers = <<>>
             /\ received = <<>>
             /\ stdout = <<>>
    /\ pc = "returned" => ~ENABLED Next

\* C18 witness: on a list with pods, the command has returned the error of a
\* container name that no container of the requested pod has.
C18_Witness ==
    /\ pc = "returned"
    /\ call.inScope
    /\ call.pods.Items # <<>>
    /\ podNameOf(call.args) = call.pods.Items[1].Name
    /\ retErr = ErrNotValid("missing", "api")

\* C19: in every state of the picker, in every interleaving of the calls, the
\* cursor is in 0..P; a goroutine about to read the palette, or about to
\* increment the cursor after reading it, has the cursor in 0..P-1; and no
\* read of the palette is out of range.
C19_CursorInRange ==
    /\ colorPicker.lastUsedColor \in 0..P
    /\ \A g \in DOMAIN gor :
          gor[g].pc \in {"assign", "incr"} => colorPicker.lastUsedColor \in 0..(P - 1)
    /\ pc # "panicked"

\* C19 witness: the cursor had reached P and the wrap-around test has put it
\* back to 0 for the goroutine that is about to read the palette.
C19_Witness ==
    /\ Len(assigned) = P
    /\ colorPicker.lastUsedColor = 0
    /\ \E g \in DOMAIN gor : gor[g].pc = "assign"

\* The bytes of a line with its '\n'.
Terminated(b) == b >= 1

\* C20: every line sent, received, in hand or written through the writer is
\* a line with its '\n'; a goroutine that has returned holds nothing to send,
\* and exactly the complete lines it read were received: the bytes that came
\* with the error were sent nowhere.
C20_OnlyCompleteLines ==
    /\ \A i \in 1..Len(received) : Terminated(received[i].bytes)
    /\ \A i \in 1..Len(Written) : Terminated(Written[i].bytes)
    /\ pc \in {"write", "exiting", "exited"} => Terminated(line.bytes)
    /\ \A k \in 1..Len(tailers) :
          /\ tailers[k].st = "send" => Terminated(tailers[k].msg.bytes)
          /\ tailers[k].st = "done"
                => /\ tailers[k].msg = NoLine
                   /\ ReceivedOf(k) = tailers[k].nread

\* C20 witness: a stream failed with unterminated bytes after one complete
\* line; the line was written and the main goroutine is back at its receive.
C20_Witness ==
    /\ pc = "recv"
    /\ \E k \in 1..Len(tailers) :
          /\ tailers[k].st = "done"
          /\ tailers[k].nread = 1
          /\ tailers[k].bytes = Unterminated(2)
          /\ IsWritten(k, 1)

====
